---- MODULE Spec2Model ----
(***************************************************************************)
(* The breaking-news feed updater of src/index.js (delete-articles-first   *)
(* store policy) and of src/unnamed/part_000 (merge-upsert-only policy):   *)
(* one run of updateBreakingFeed() fetches articles and videos, filters    *)
(* the videos against the breaking_news collection, upserts, trims the     *)
(* collection to 30 documents and pushes the most viewed new video.        *)
(*                                                                         *)
(* Strings are modelled as natural numbers; 0 stands for every falsy       *)
(* value (undefined, ''), so that  a || b || c  is "the first non-zero".   *)
(* The fields description and source of an item are copied verbatim into   *)
(* the payload and decide nothing; they are left out.                      *)
(***************************************************************************)
EXTENDS Integers, Sequences, FiniteSets, TLC

\* src/index.js:330,332 : if (snap.size > 30) ... snap.docs.slice(30)
MaxDocs == 30
\* src/index.js:118 : .slice(0, 20)
MaxArticles == 20
\* number of video documents of earlier runs in the non-empty initial store
NumFillers == 29
\* number of invocations of the pipeline that the scheduler makes
MaxRuns == 3

-----------------------------------------------------------------------------
(* Generic helpers for JavaScript values                                   *)

\* item.f of a JavaScript object: undefined (falsy, 0) when the field is absent
Field(item, f) == IF f \in DOMAIN item THEN item[f] ELSE 0

\* a || b || c
Or3(a, b, c) == IF a # 0 THEN a ELSE IF b # 0 THEN b ELSE c

\* Array.prototype.sort with comparator (a, b) => key(b) - key(a), where
\* key[i] is the key of s[i]: descending by key, stable (equal keys keep
\* their order in the array)
SortDescBy(s, key) ==
  LET n == Len(s)
      rank == [i \in 1..n |->
                 Cardinality({j \in 1..n :
                    \/ key[j] > key[i]
                    \/ key[j] = key[i] /\ j < i})]
  IN  [p \in 1..n |-> s[CHOOSE i \in 1..n : rank[i] = p - 1]]

\* Array.prototype.slice(from) and slice(0, to), zero-based as in JavaScript
SliceFrom(s, from) == SubSeq(s, from + 1, Len(s))
SliceTo(s, to) == SubSeq(s, 1, IF Len(s) < to THEN Len(s) ELSE to)

RECURSIVE Flatten(_)
Flatten(ss) == IF ss = <<>> THEN <<>> ELSE Head(ss) \o Flatten(Tail(ss))

Range(s) == {s[i] : i \in 1..Len(s)}

-----------------------------------------------------------------------------
(* Fingerprint                                                             *)

\* crypto.createHash('md5').update(x).digest('hex'): a fixed scrambling of the
\* string codes, injective on the codes 0..256 that the model uses
MD5(x) == (x * 37 + 11) % 257

\* mutant of Discriminator: item.url || item.videoId || item.title
DiscriminatorUrlFirst(item) ==
  Or3(Field(item, "url"), Field(item, "videoId"), Field(item, "title"))

\* item.videoId || item.url || item.title
Discriminator(item) ==
  Or3(Field(item, "videoId"), Field(item, "url"), Field(item, "title"))

\* safeId: the document id of an item in breaking_news
SafeId(item) == MD5(Discriminator(item))

-----------------------------------------------------------------------------
(* What the outside world can return                                       *)

\* an article as a feed carries it, normalised but for its image: image is
\* the enclosure or media:content url of the feed item, 0 if it has none
Article(url, title, ts) ==
  [title |-> title, url |-> url, image |-> 0, type |-> "article", timestamp |-> ts]

\* a normalised video of getLatestVideos; its url and its thumbnail are
\* derived from its id
Video(id, ts, views) ==
  [videoId |-> id, title |-> 100 + id, url |-> 150 + id, image |-> 300 + id,
   type |-> "video", timestamp |-> ts, views |-> views]

A1 == Article(201, 221, 30)
A2 == Article(0, 222, 10)
V1 == Video(1, 10, 10)
V2 == Video(2, 30, 10)
V3 == Video(3, 20, 20)

\* the result of one request: the items it returned, or a failure (a thrown
\* error, a timeout of fetchWithTimeout, a malformed response)
Ok(items) == [ok |-> TRUE, items |-> items]
FetchError == [ok |-> FALSE, items |-> <<>>]

\* what parser.parseURL(url) can yield for each of the feeds in one run
FeedUrls == <<"puthiyathalaimurai", "dinamani">>
FeedOutcomes(u) ==
  IF u = "puthiyathalaimurai" THEN {FetchError, Ok(<<>>), Ok(<<A1>>)}
  ELSE {FetchError, Ok(<<A2, A1>>)}

\* what the YouTube requests can yield for each channel in one run
ChannelIds == <<"ch1", "ch2">>
ChannelOutcomes(c) ==
  IF c = "ch1"
  THEN {FetchError, Ok(<<>>), Ok(<<V1>>), Ok(<<V1, V2>>), Ok(<<V2, V1>>)}
  ELSE {FetchError, Ok(<<V3>>)}

\* what the request for an article's page yields: the pages of these feeds
\* carry no og:image
PageOutcomes == {Ok(<<>>)}

FeedResponses ==
  {f \in [1..Len(FeedUrls) -> UNION {FeedOutcomes(FeedUrls[i]) : i \in 1..Len(FeedUrls)}] :
     \A i \in 1..Len(FeedUrls) : f[i] \in FeedOutcomes(FeedUrls[i])}
ChannelResponses ==
  {f \in [1..Len(ChannelIds) -> UNION {ChannelOutcomes(ChannelIds[i]) : i \in 1..Len(ChannelIds)}] :
     \A i \in 1..Len(ChannelIds) : f[i] \in ChannelOutcomes(ChannelIds[i])}

\* items that share or cross their discriminator fields: K2 has the url of
\* A1 under another title and date, K3 has no url and the url of A1 as its
\* title, K4 has no url and the title of A1, K5 has the url and the title of
\* the video V1; V1b is V1 with another view count
K2 == Article(201, 222, 10)
K3 == Article(0, 201, 20)
K4 == Article(0, 221, 20)
K5 == Article(151, 101, 20)
V1b == Video(1, 10, 20)
KeyArticles == {A1, K2, K3, K4, K5}
KeyVideos == {V1, V1b, V2}

\* what the requests can yield when the feeds and channels carry such items
KeyFeedResponses ==
  {<<f1, f2>> : f1 \in {FetchError} \cup {Ok(<<a>>) : a \in KeyArticles},
                f2 \in {Ok(<<A1>>)}}
KeyChannelResponses ==
  {<<c1, c2>> : c1 \in {FetchError} \cup {Ok(<<v>>) : v \in KeyVideos},
                c2 \in {Ok(<<V1>>)}}

\* what the requests can yield when every source can fail by itself: each
\* feed and each channel fails or returns its one item, each article page
\* fails or has an og:image
OgImage == 399
FetchPageOutcomes == {FetchError, Ok(<<OgImage>>)}
FetchFeedResponses ==
  {<<f1, f2>> : f1 \in {FetchError, Ok(<<A1>>)}, f2 \in {FetchError, Ok(<<A2>>)}}
FetchChannelResponses ==
  {<<c1, c2>> : c1 \in {FetchError, Ok(<<V1>>)}, c2 \in {FetchError, Ok(<<V3>>)}}

-----------------------------------------------------------------------------
(* The pure steps of the pipeline                                          *)

\* new Date(x.timestamp) and (x.views || 0), the sort keys, for each item
Timestamp(item) == item.timestamp
Views(item) == Field(item, "views")
Timestamps(s) == [i \in 1..Len(s) |-> Timestamp(s[i])]
ViewCounts(s) == [i \in 1..Len(s) |-> Views(s[i])]

\* mutant of FeedItems: no try around parser.parseURL, one failing feed
\* fails the Promise.all and no article is returned
FeedItemsAllOrNothing(resp) ==
  IF \A i \in 1..Len(FeedUrls) : resp[i].ok
  THEN Flatten([i \in 1..Len(FeedUrls) |-> resp[i].items])
  ELSE <<>>

\* the items of the feeds, a failing feed counting as { items: [] }, flattened
\* in feed order
FeedItems(resp) ==
  Flatten([i \in 1..Len(FeedUrls) |-> IF resp[i].ok THEN resp[i].items ELSE <<>>])

\* getArticleImage: the og:image of the page, '' when the page has none or
\* the request fails
getArticleImage(out) == IF out.ok /\ out.items # <<>> THEN out.items[1] ELSE 0

\* imageUrl = enclosureUrl || mediaContent, and with neither of them and a
\* link, the result of getArticleImage(item.link); page is the outcome of
\* that request
ImageUrl(item, page) ==
  IF item.image # 0 THEN item.image
  ELSE IF item.url # 0 THEN getArticleImage(page) ELSE 0

\* fetchArticlesFromFeeds: the items of all feeds, each with its image, sorted
\* newest first and cut to the latest 20; pages[i] is the outcome of the page
\* request for the i-th item
fetchArticlesFromFeeds(resp, pages) ==
  LET items == FeedItems(resp)
      mapped == [i \in 1..Len(items) |->
                   [items[i] EXCEPT !.image = ImageUrl(items[i], pages[i])]]
  IN  SliceTo(SortDescBy(mapped, Timestamps(mapped)), MaxArticles)

\* getLatestVideos: [] when the request fails
getLatestVideos(out) == IF out.ok THEN out.items ELSE <<>>

\* fetchVideosForChannels: the channels' videos concatenated in channel order
fetchVideosForChannels(resp) ==
  Flatten([i \in 1..Len(ChannelIds) |-> getLatestVideos(resp[i])])

\* existingIds = new Set(existingSnap.docs.map((doc) => doc.id))
ExistingIds(existingSnap) == DOMAIN existingSnap

\* mutant of NewVideos: the hash input leaves out videoId
NewVideosByUrl(videos, existingSnap) ==
  LET isNew(item) ==
        MD5(Or3(0, Field(item, "url"), Field(item, "title")))
          \notin ExistingIds(existingSnap)
  IN  SelectSeq(videos, isNew)

\* newVideos = videos.filter((item) => !existingIds.has(safeId))
NewVideos(videos, existingSnap) ==
  LET isNew(item) == SafeId(item) \notin ExistingIds(existingSnap)
  IN  SelectSeq(videos, isNew)

\* mutant of Combined: [...newVideos, ...articles].sort(newest first)
CombinedVideosFirst(articles, newVideos) ==
  SortDescBy(newVideos \o articles, Timestamps(newVideos \o articles))

\* combined = [...articles, ...newVideos].sort(newest first)
Combined(articles, newVideos) ==
  SortDescBy(articles \o newVideos, Timestamps(articles \o newVideos))

\* mutant of OldArticleIds: the test is data.type === 'articles'
OldArticleIdsMistyped(existingSnap) ==
  {id \in DOMAIN existingSnap : existingSnap[id].type = "articles"}

\* the documents batchDel deletes: those of existingSnap of type 'article'
OldArticleIds(existingSnap) ==
  {id \in DOMAIN existingSnap : existingSnap[id].type = "article"}

\* batch.delete(ref) for every id of ids, committed
DeleteDocs(coll, ids) == [id \in DOMAIN coll \ ids |-> coll[id]]

\* the payload written for an item; videoId and views only for a video
Payload(item) ==
  LET base == [title |-> item.title, url |-> item.url, image |-> item.image,
               type |-> item.type, timestamp |-> item.timestamp]
  IN  IF item.type = "video"
      THEN [f \in DOMAIN base \cup {"videoId", "views"} |->
              IF f \in DOMAIN base THEN base[f] ELSE item[f]]
      ELSE base

\* mutant of SetMerge: collection.add(payload), a document with a fresh id
SetAdd(coll, id, payload) ==
  LET fresh == 300 + Cardinality(DOMAIN coll)
  IN  [k \in DOMAIN coll \cup {fresh} |-> IF k = fresh THEN payload ELSE coll[k]]

\* ref.set(payload, { merge: true }): fields of the payload replace those of
\* the document, the document's other fields stay
SetMerge(coll, id, payload) ==
  LET doc == IF id \in DOMAIN coll
             THEN [f \in DOMAIN coll[id] \cup DOMAIN payload |->
                     IF f \in DOMAIN payload THEN payload[f] ELSE coll[id][f]]
             ELSE payload
  IN  [k \in DOMAIN coll \cup {id} |-> IF k = id THEN doc ELSE coll[k]]

\* combined.forEach(item => batch.set(doc(safeId), payload, {merge: true})),
\* committed: the writes apply in order
RECURSIVE Upsert(_, _)
Upsert(coll, combined) ==
  IF combined = <<>> THEN coll
  ELSE Upsert(SetMerge(coll, SafeId(Head(combined)), Payload(Head(combined))),
              Tail(combined))

\* mutant of OrderByTimestampDesc: orderBy('timestamp', 'asc')
OrderByTimestampAsc(coll) ==
  LET docs == {<<coll[id].timestamp, id>> :
                 id \in {d \in DOMAIN coll : "timestamp" \in DOMAIN coll[d]}}
      before(a, b) == a[1] < b[1] \/ (a[1] = b[1] /\ a[2] < b[2])
      ranked == {<<Cardinality({a \in docs : before(a, b)}) + 1, b[2]>> : b \in docs}
  IN  [p \in 1..Cardinality(docs) |-> (CHOOSE x \in ranked : x[1] = p)[2]]

\* collection('breaking_news').orderBy('timestamp', 'desc').get(): the ids
\* newest first; documents of equal timestamp come in descending id order
OrderByTimestampDesc(coll) ==
  LET docs == {<<coll[id].timestamp, id>> :
                 id \in {d \in DOMAIN coll : "timestamp" \in DOMAIN coll[d]}}
      before(a, b) == a[1] > b[1] \/ (a[1] = b[1] /\ a[2] > b[2])
      ranked == {<<Cardinality({a \in docs : before(a, b)}) + 1, b[2]>> : b \in docs}
  IN  [p \in 1..Cardinality(docs) |-> (CHOOSE x \in ranked : x[1] = p)[2]]

\* mutant of DocsToDelete: snap.docs.slice(31)
DocsToDeleteOffByOne(snap) == SliceFrom(snap, MaxDocs + 1)

\* docsToDelete = snap.docs.slice(30)
DocsToDelete(snap) == SliceFrom(snap, MaxDocs)

\* videos.sort((a, b) => (b.views || 0) - (a.views || 0)), which sorts the
\* array in place, most viewed first
SortByViews(videos) == SortDescBy(videos, ViewCounts(videos))

\* mutant of Top: the comparator is a.views - b.views
TopLeastViewed(videos) == SortByViews(videos)[Len(videos)]

\* top = (the sorted videos)[0]
Top(videos) == SortByViews(videos)[1]

\* lastVideoId = lastDoc.exists ? lastDoc.data()?.videoId : null
LastVideoId(lastDoc) == IF lastDoc.exists THEN lastDoc.videoId ELSE 0

\* mutant of AlreadyNotified: the guard compares with the title
AlreadyNotifiedByTitle(lastVideoId, top) ==
  lastVideoId # 0 /\ lastVideoId = top.title

\* if (lastVideoId && lastVideoId === top.videoId) return
AlreadyNotified(lastVideoId, top) ==
  lastVideoId # 0 /\ lastVideoId = top.videoId

\* mutant of LastNotified: the document records the title as the video's id
LastNotifiedByTitle(top) ==
  [exists |-> TRUE, videoId |-> top.title, title |-> top.title]

\* the document lastRef.set writes (notifiedAt, a server time, is left out)
LastNotified(top) == [exists |-> TRUE, videoId |-> top.videoId, title |-> top.title]
NoDoc == [exists |-> FALSE, videoId |-> 0, title |-> 0]

-----------------------------------------------------------------------------
(* State                                                                   *)

VARIABLES
  breaking_news,   \* the collection: document id -> document
  last_notified,   \* the document notifications/last_notified
  policy,          \* which version of updateBreakingFeed is deployed
  run,             \* per invocation of the pipeline: its position and locals
  upsertedVideos,  \* observer: the videoIds committed by an upsert so far
  lastPushed,      \* observer: the videoId of the latest push sent, 0 if none
  started          \* the number of invocations the scheduler has made

vars == <<breaking_news, last_notified, policy, run, upsertedVideos, lastPushed,
          started>>

\* the two versions of updateBreakingFeed: src/index.js deletes the stored
\* articles before it upserts, src/unnamed/part_000 upserts only
ReplaceArticles == "replace"
MergeOnly == "merge"

\* the invocations that can be in flight; Spec schedules one at a time
Runs == {"A", "B"}
OneAtATime == {"A"}

\* an invocation that is not running: a fresh process has empty locals
\* (startNotif, handed, evicted, suppressed, pushed, wrote and failedAt
\* observe the run: the NotificationState it started from, the length of
\* newVideos, the number of documents its retention step deleted, whether
\* the guard skipped the push, the videoId it pushed, the number of writes
\* of last_notified it made and the await it failed at; feeds, pages and
\* channels observe what the requests of the run returned, until its first
\* write to the store; they are no locals of the code)
Idle ==
  [pc |-> "idle", feeds |-> <<>>, pages |-> <<>>, channels |-> <<>>,
   articles |-> <<>>, videos |-> <<>>, existingSnap |-> <<>>,
   newVideos |-> <<>>, combined |-> <<>>, snap |-> <<>>, top |-> <<>>,
   lastVideoId |-> 0, startNotif |-> NoDoc, handed |-> 0, evicted |-> 0,
   suppressed |-> FALSE, pushed |-> 0, wrote |-> 0, failedAt |-> "none"]

\* an invocation that has returned or rejected: its locals are gone
Ended(l, pc, at) ==
  [Idle EXCEPT !.pc = pc, !.failedAt = at, !.startNotif = l.startNotif,
               !.handed = l.handed, !.evicted = l.evicted,
               !.suppressed = l.suppressed, !.pushed = l.pushed,
               !.wrote = l.wrote]

\* the documents of NumFillers videos that earlier runs have stored
Filler(i) == Video(10 + i, 20, 0)
FillerStore == Upsert(<<>>, [i \in 1..NumFillers |-> Filler(i)])

Init ==
  /\ breaking_news \in {<<>>, FillerStore}
  /\ last_notified = NoDoc
  /\ policy \in {ReplaceArticles, MergeOnly}
  /\ run = [r \in Runs |-> Idle]
  /\ upsertedVideos = {}
  /\ lastPushed = 0
  /\ started = 0

-----------------------------------------------------------------------------
(* updateBreakingFeed, one action per await on the store or on FCM         *)

\* both fetches, answered out of feedResponses, pageOutcomes and
\* channelResponses, the read of existingSnap, and the filter and merge that
\* follow it without an await
StartFrom(r, feedResponses, pageOutcomes, channelResponses) ==
  /\ run[r].pc = "idle"
  /\ started < MaxRuns
  /\ started' = started + 1
  /\ \E fr \in feedResponses, cr \in channelResponses :
     \E pr \in [1..Len(FeedItems(fr)) -> pageOutcomes] :
       LET articles == fetchArticlesFromFeeds(fr, pr)
           videos == fetchVideosForChannels(cr)
           newVideos == NewVideos(videos, breaking_news)
       IN  run' = [run EXCEPT ![r] =
             [Idle EXCEPT
                !.pc = IF policy = ReplaceArticles THEN "deleting" ELSE "upserting",
                !.feeds = fr,
                !.pages = pr,
                !.channels = cr,
                !.articles = articles,
                !.videos = videos,
                !.existingSnap = breaking_news,
                !.newVideos = newVideos,
                !.combined = Combined(articles, newVideos),
                !.startNotif = last_notified,
                !.handed = Len(newVideos)]]
  /\ UNCHANGED <<breaking_news, last_notified, policy, upsertedVideos, lastPushed>>

Start(r) == StartFrom(r, FeedResponses, PageOutcomes, ChannelResponses)

\* the read of existingSnap rejects
StartFails(r) ==
  /\ run[r].pc = "idle"
  /\ started < MaxRuns
  /\ started' = started + 1
  /\ run' = [run EXCEPT ![r] =
       [Idle EXCEPT !.pc = "failed", !.failedAt = "reading",
                    !.startNotif = last_notified]]
  /\ UNCHANGED <<breaking_news, last_notified, policy, upsertedVideos, lastPushed>>

\* src/index.js only: batchDel.commit()
DeleteOldArticles(r) ==
  /\ run[r].pc = "deleting"
  /\ breaking_news' = DeleteDocs(breaking_news, OldArticleIds(run[r].existingSnap))
  /\ run' = [run EXCEPT ![r].pc = "upserting", ![r].feeds = <<>>,
                         ![r].pages = <<>>, ![r].channels = <<>>]
  /\ UNCHANGED <<last_notified, policy, upsertedVideos, lastPushed, started>>

\* batch.commit()
UpsertCommit(r) ==
  /\ run[r].pc = "upserting"
  /\ breaking_news' = Upsert(breaking_news, run[r].combined)
  /\ upsertedVideos' = upsertedVideos \cup
       {run[r].combined[i].videoId :
          i \in {j \in 1..Len(run[r].combined) : run[r].combined[j].type = "video"}}
  /\ run' = [run EXCEPT ![r].pc = "ordering", ![r].feeds = <<>>,
                         ![r].pages = <<>>, ![r].channels = <<>>]
  /\ UNCHANGED <<last_notified, policy, lastPushed, started>>

\* mutant of ReadOrdered: batch.commit() is not awaited and the ordered read
\* is answered before the upsert is applied
ReadOrderedStale(r) ==
  /\ run[r].pc = "ordering"
  /\ LET snap == OrderByTimestampDesc(run[r].existingSnap)
     IN  run' = [run EXCEPT ![r].snap = snap,
                            ![r].pc = IF Len(snap) > MaxDocs THEN "evicting"
                                      ELSE "notify"]
  /\ UNCHANGED <<breaking_news, last_notified, policy, upsertedVideos, lastPushed, started>>

\* the ordered read of the collection; with at most 30 documents nothing is
\* deleted and sendTopVideoIfNeeded is called at once
ReadOrdered(r) ==
  /\ run[r].pc = "ordering"
  /\ LET snap == OrderByTimestampDesc(breaking_news)
     IN  run' = [run EXCEPT ![r].snap = snap,
                            ![r].pc = IF Len(snap) > MaxDocs THEN "evicting"
                                      ELSE "notify"]
  /\ UNCHANGED <<breaking_news, last_notified, policy, upsertedVideos, lastPushed, started>>

\* delBatch.commit()
EnforceRetention(r) ==
  /\ run[r].pc = "evicting"
  /\ breaking_news' = DeleteDocs(breaking_news, Range(DocsToDelete(run[r].snap)))
  /\ run' = [run EXCEPT ![r].pc = "notify",
                         ![r].evicted = Len(DocsToDelete(run[r].snap))]
  /\ UNCHANGED <<last_notified, policy, upsertedVideos, lastPushed, started>>

-----------------------------------------------------------------------------
(* sendTopVideoIfNeeded(newVideos)                                         *)

\* if (!videos || videos.length === 0) return
NothingNew(r) ==
  /\ run[r].pc = "notify"
  /\ run[r].newVideos = <<>>
  /\ run' = [run EXCEPT ![r] = Ended(run[r], "done", "none")]
  /\ UNCHANGED <<breaking_news, last_notified, policy, upsertedVideos, lastPushed, started>>

\* the sort, the read of last_notified and the guard
ReadLastNotified(r) ==
  /\ run[r].pc = "notify"
  /\ run[r].newVideos # <<>>
  /\ LET top == Top(run[r].newVideos)
         lastVideoId == LastVideoId(last_notified)
     IN  run' = [run EXCEPT ![r] =
           IF AlreadyNotified(lastVideoId, top)
           THEN Ended([run[r] EXCEPT !.suppressed = TRUE], "done", "none")
           ELSE [run[r] EXCEPT !.newVideos = SortByViews(run[r].newVideos),
                               !.top = top, !.lastVideoId = lastVideoId,
                               !.pc = "sending"]]
  /\ UNCHANGED <<breaking_news, last_notified, policy, upsertedVideos, lastPushed, started>>

\* admin.messaging().send(message) resolves
Send(r) ==
  /\ run[r].pc = "sending"
  /\ lastPushed' = run[r].top.videoId
  /\ run' = [run EXCEPT ![r].pushed = run[r].top.videoId, ![r].pc = "recording"]
  /\ UNCHANGED <<breaking_news, last_notified, policy, upsertedVideos, started>>

\* mutant of SendFails: last_notified is set although the send rejected
SendFailsButRecords(r) ==
  /\ run[r].pc = "sending"
  /\ last_notified' = LastNotified(run[r].top)
  /\ run' = [run EXCEPT ![r] = Ended(run[r], "failed", "sending")]
  /\ UNCHANGED <<breaking_news, policy, upsertedVideos, lastPushed, started>>

\* mutant of SendFails: the rejected send undoes the store updates of the run
SendFailsRollsBack(r) ==
  /\ run[r].pc = "sending"
  /\ breaking_news' = run[r].existingSnap
  /\ run' = [run EXCEPT ![r] = Ended(run[r], "failed", "sending")]
  /\ UNCHANGED <<last_notified, policy, upsertedVideos, lastPushed, started>>

\* admin.messaging().send(message) rejects
SendFails(r) ==
  /\ run[r].pc = "sending"
  /\ run' = [run EXCEPT ![r] = Ended(run[r], "failed", "sending")]
  /\ UNCHANGED <<breaking_news, last_notified, policy, upsertedVideos, lastPushed, started>>

\* lastRef.set({videoId, title, notifiedAt})
Record(r) ==
  /\ run[r].pc = "recording"
  /\ last_notified' = LastNotified(run[r].top)
  /\ run' = [run EXCEPT ![r] =
       Ended([run[r] EXCEPT !.wrote = run[r].wrote + 1], "done", "none")]
  /\ UNCHANGED <<breaking_news, policy, upsertedVideos, lastPushed, started>>

\* a commit, a read or a set on the store rejects: nothing of it is applied
\* and the rejection leaves updateBreakingFeed
StoreFails(r) ==
  /\ \/ run[r].pc \in {"deleting", "upserting", "ordering", "evicting", "recording"}
     \/ run[r].pc = "notify" /\ run[r].newVideos # <<>>
  /\ run' = [run EXCEPT ![r] = Ended(run[r], "failed", run[r].pc)]
  /\ UNCHANGED <<breaking_news, last_notified, policy, upsertedVideos, lastPushed, started>>

\* .then(() => process.exit()): the run ends; the next one is a new process
Exit(r) ==
  /\ run[r].pc = "done"
  /\ run' = [run EXCEPT ![r] = Idle]
  /\ UNCHANGED <<breaking_news, last_notified, policy, upsertedVideos, lastPushed, started>>

\* mutant of Crash: the unhandled rejection is only warned about and the
\* open Firestore client keeps the process alive
CrashHangs(r) ==
  /\ run[r].pc = "failed"
  /\ UNCHANGED vars

\* updateBreakingFeed() rejected and nothing handles the rejection: Node
\* raises the unhandled rejection as an uncaught exception, which ends the
\* process; the next run is a new process
Crash(r) ==
  /\ run[r].pc = "failed"
  /\ run' = [run EXCEPT ![r] = Idle]
  /\ UNCHANGED <<breaking_news, last_notified, policy, upsertedVideos, lastPushed, started>>

Cycle(r) ==
  \/ Start(r)
  \/ StartFails(r)
  \/ DeleteOldArticles(r)
  \/ UpsertCommit(r)
  \/ ReadOrdered(r)
  \/ EnforceRetention(r)
  \/ NothingNew(r)
  \/ ReadLastNotified(r)
  \/ Send(r)
  \/ SendFails(r)
  \/ Record(r)
  \/ StoreFails(r)
  \/ Exit(r)
  \/ Crash(r)

\* the scheduler starts a run only after the previous one has ended
Next == \E r \in OneAtATime : Cycle(r)

Spec == Init /\ [][Next]_vars

\* the same pipeline with both feeds answering and the second channel
\* answering or not
FairFeedResponses == {<<Ok(<<A1>>), Ok(<<A2>>)>>}
FairChannelResponses == {<<Ok(<<V1>>), FetchError>>, <<Ok(<<V1>>), Ok(<<V3>>)>>}
StartFair(r) ==
  StartFrom(r, FairFeedResponses, PageOutcomes, FairChannelResponses)

\* the steps of a run that has started
Settle(r) ==
  \/ DeleteOldArticles(r)
  \/ UpsertCommit(r)
  \/ ReadOrdered(r)
  \/ EnforceRetention(r)
  \/ NothingNew(r)
  \/ ReadLastNotified(r)
  \/ Send(r)
  \/ SendFails(r)
  \/ Record(r)
  \/ StoreFails(r)
  \/ Exit(r)
  \/ Crash(r)

CycleFair(r) == StartFair(r) \/ StartFails(r) \/ Settle(r)

NextFair == \E r \in OneAtATime : CycleFair(r)

\* a run that has started is not put off for ever: every request it awaits
\* resolves or rejects (the Firestore and FCM clients end a call at their
\* deadline), process.exit() follows the resolution of updateBreakingFeed()
\* and the end of the process follows its rejection
FairSpec == Init /\ [][NextFair]_vars /\ \A r \in OneAtATime : WF_vars(Settle(r))

\* the same pipeline, the feeds and channels carrying the items of KeyArticles
\* and KeyVideos
StartKeys(r) == StartFrom(r, KeyFeedResponses, PageOutcomes, KeyChannelResponses)

CycleKeys(r) ==
  \/ StartKeys(r)
  \/ StartFails(r)
  \/ DeleteOldArticles(r)
  \/ UpsertCommit(r)
  \/ ReadOrdered(r)
  \/ EnforceRetention(r)
  \/ NothingNew(r)
  \/ ReadLastNotified(r)
  \/ Send(r)
  \/ SendFails(r)
  \/ Record(r)
  \/ StoreFails(r)
  \/ Exit(r)
  \/ Crash(r)

NextKeys == \E r \in OneAtATime : CycleKeys(r)

SpecKeys == Init /\ [][NextKeys]_vars

\* the same pipeline, every feed, channel and article page failing or
\* answering by itself
StartFetch(r) ==
  StartFrom(r, FetchFeedResponses, FetchPageOutcomes, FetchChannelResponses)

CycleFetch(r) ==
  \/ StartFetch(r)
  \/ StartFails(r)
  \/ DeleteOldArticles(r)
  \/ UpsertCommit(r)
  \/ ReadOrdered(r)
  \/ EnforceRetention(r)
  \/ NothingNew(r)
  \/ ReadLastNotified(r)
  \/ Send(r)
  \/ SendFails(r)
  \/ Record(r)
  \/ StoreFails(r)
  \/ Exit(r)
  \/ Crash(r)

NextFetch == \E r \in OneAtATime : CycleFetch(r)

SpecFetch == Init /\ [][NextFetch]_vars

\* two invocations with no lock between them: the script takes none, and a
\* scheduler that starts the second process before the first has ended lets
\* their awaits interleave in any order
NextOverlap == \E r \in Runs : CycleFair(r)

SpecOverlap == Init /\ [][NextOverlap]_vars

\* updateBreakingFeed() has returned or rejected: the process makes no
\* further request and is about to end
Settled == {"idle", "done", "failed"}

\* the process slot of the next invocation: successive invocations take the
\* two slots in turn, so that the slot of the previous one still shows what
\* it read and pushed until its process is gone
Turn == IF started % 2 = 0 THEN "A" ELSE "B"

\* invocations strictly one at a time, seen over two process slots: a slot
\* takes a step only while the other one has settled, and a run starts in
\* the slot whose turn it is
Alone(r) == \A q \in Runs \ {r} : run[q].pc \in Settled

CycleSuccessive(r) ==
  \/ Alone(r) /\ r = Turn /\ StartFair(r)
  \/ Alone(r) /\ r = Turn /\ StartFails(r)
  \/ Alone(r) /\ DeleteOldArticles(r)
  \/ Alone(r) /\ UpsertCommit(r)
  \/ Alone(r) /\ ReadOrdered(r)
  \/ Alone(r) /\ EnforceRetention(r)
  \/ Alone(r) /\ NothingNew(r)
  \/ Alone(r) /\ ReadLastNotified(r)
  \/ Alone(r) /\ Send(r)
  \/ Alone(r) /\ SendFails(r)
  \/ Alone(r) /\ Record(r)
  \/ Alone(r) /\ StoreFails(r)
  \/ Alone(r) /\ Exit(r)
  \/ Alone(r) /\ Crash(r)

NextSuccessive == \E r \in Runs : CycleSuccessive(r)

SpecSuccessive == Init /\ [][NextSuccessive]_vars

-----------------------------------------------------------------------------
(* The claims                                                              *)

Size(coll) == Cardinality(DOMAIN coll)

\* C1: at the end of every run that runs to completion the breaking_news
\* collection holds at most 30 documents, whatever was fetched.
C1_AtMost30AtRest ==
  \A r \in Runs : run[r].pc = "done" => Size(breaking_news) <= MaxDocs

\* a completed run whose retention step had documents to delete
C1_Witness ==
  \E r \in Runs :
    run[r].pc = "done" /\ run[r].evicted > 0 /\ Size(breaking_news) = MaxDocs

\* C2: a retention step on more than 30 documents leaves exactly 30 of them,
\* and none that it deletes is newer than one that it keeps; on 30 documents
\* or fewer it deletes nothing.
C2_RetentionKeepsNewest ==
  [][\A r \in Runs :
       /\ (run[r].pc = "ordering" /\ run'[r].pc = "evicting") =>
             Size(breaking_news) > MaxDocs
       /\ (run[r].pc = "ordering" /\ run'[r].pc = "notify") =>
             Size(breaking_news) <= MaxDocs /\ breaking_news' = breaking_news
       /\ (run[r].pc = "evicting" /\ run'[r].pc = "notify") =>
             LET kept == DOMAIN breaking_news'
                 deleted == DOMAIN breaking_news \ kept
             IN  /\ kept \subseteq DOMAIN breaking_news
                 /\ Cardinality(kept) = MaxDocs
                 /\ \A k \in kept : breaking_news'[k] = breaking_news[k]
                 /\ \A k \in kept, d \in deleted :
                      breaking_news[k].timestamp >= breaking_news[d].timestamp
  ]_vars

\* the retention step has just deleted documents, one of them as new as a
\* document it kept (a tie at the cut)
C2_Witness ==
  \E r \in Runs :
    /\ run[r].pc = "notify"
    /\ run[r].evicted > 0
    /\ \E d \in Range(DocsToDelete(run[r].snap)) \cap DOMAIN run[r].existingSnap,
          k \in DOMAIN breaking_news :
         run[r].existingSnap[d].timestamp = breaking_news[k].timestamp

\* C3: if a store transaction of a run fails (the article-delete batch, the
\* upsert batch or the retention-delete batch), the run reports failure and
\* breaking_news is what it was at the start of that run.
C3_CycleAllOrNothing ==
  [][\A r \in Runs :
       (run[r].pc \in {"deleting", "upserting", "evicting"} /\ run'[r].pc = "failed")
          => breaking_news' = run[r].existingSnap
  ]_vars

\* the runs whose locals are alive: started, neither returned nor rejected
Live(r) == run[r].pc \notin {"idle", "done", "failed"}

\* C4: a fetched video is in newVideos exactly if its fingerprint is no key
\* of the snapshot read at the start of the merge; and the upsert leaves
\* every video document of that snapshot as it was.
C4_VideoFilter ==
  \A r \in Runs :
    /\ Live(r) =>
         \A i \in 1..Len(run[r].videos) :
           (SafeId(run[r].videos[i]) \in DOMAIN run[r].existingSnap)
             <=> (run[r].videos[i] \notin Range(run[r].newVideos))
    /\ run[r].pc = "ordering" =>
         \A id \in DOMAIN run[r].existingSnap :
           run[r].existingSnap[id].type = "video" =>
             id \in DOMAIN breaking_news /\ breaking_news[id] = run[r].existingSnap[id]

\* an upsert has committed in a run that fetched a stored and an unseen video
C4_Witness ==
  \E r \in Runs :
    /\ run[r].pc = "ordering"
    /\ \E i, j \in 1..Len(run[r].videos) :
         /\ SafeId(run[r].videos[i]) \in DOMAIN run[r].existingSnap
         /\ SafeId(run[r].videos[j]) \notin DOMAIN run[r].existingSnap

\* C5: no video that an earlier run upserted is in the newVideos of a later
\* run, also when retention has deleted its document in the meantime.
C5_OnlyUnseenVideos ==
  \A r \in Runs :
    run[r].pc \in {"deleting", "upserting"} =>
      \A i \in 1..Len(run[r].newVideos) :
        run[r].newVideos[i].videoId \notin upsertedVideos

\* the most viewed item of a list, the first one of them in list order
FirstMostViewed(list) ==
  list[CHOOSE i \in 1..Len(list) :
         /\ \A j \in 1..Len(list) : Views(list[j]) <= Views(list[i])
         /\ \A j \in 1..(i - 1) : Views(list[j]) < Views(list[i])]

\* C6: if the stored NotificationState.videoId is the id of the top-viewed
\* item of newVideos, the notifier sends no push and leaves NotificationState
\* as it is: its step ends the run with nothing pushed and nothing written.
C6_Suppression ==
  [][\A r \in Runs :
       ( /\ run[r].pc = "notify"
         /\ run[r].newVideos # <<>>
         /\ last_notified.exists
         /\ last_notified.videoId = FirstMostViewed(run[r].newVideos).videoId
         /\ run'[r] # run[r] )
       => /\ run'[r].pc \in {"done", "failed"}
          /\ run'[r].pushed = 0
          /\ run'[r].wrote = 0
          /\ last_notified' = last_notified
  ]_vars

\* a run ended by the guard, NotificationState naming a video
C6_Witness ==
  \E r \in Runs :
    /\ run[r].pc = "done"
    /\ run[r].suppressed
    /\ run[r].pushed = 0
    /\ last_notified.exists
    /\ last_notified = run[r].startNotif

\* C7, the part on the choice: the push is for the most viewed item of the
\* newVideos handed over, the first of them on equal views; with an empty
\* newVideos nothing is sent and nothing is written.
C7_Selection ==
  \A r \in Runs :
    /\ run[r].pc \in {"sending", "recording"} =>
         /\ run[r].handed > 0
         /\ run[r].top =
              FirstMostViewed(NewVideos(run[r].videos, run[r].existingSnap))
    /\ run[r].pc = "recording" => run[r].pushed = run[r].top.videoId
    /\ (run[r].pc \in {"done", "failed"} /\ run[r].handed = 0) =>
         run[r].pushed = 0 /\ run[r].wrote = 0 /\ last_notified = run[r].startNotif

\* C7 as amended: the choice as above; after a successful send whose write of
\* NotificationState succeeds too, NotificationState.videoId is the id of the
\* item pushed; when that write fails the run fails and NotificationState
\* keeps the value it had.
C7_TopVideoPushed ==
  /\ C7_Selection
  /\ \A r \in Runs :
       /\ (run[r].pc = "done" /\ run[r].pushed # 0) =>
            last_notified.exists /\ last_notified.videoId = run[r].pushed
       /\ (run[r].pc = "failed" /\ run[r].pushed # 0) =>
            run[r].failedAt = "recording" /\ last_notified = run[r].startNotif

\* a run has pushed the second of two new videos, the more viewed one, and
\* recorded it
C7_Witness ==
  \E r \in Runs :
    /\ run[r].pc = "done"
    /\ run[r].handed > 1
    /\ run[r].pushed = V3.videoId
    /\ last_notified.videoId = V3.videoId

\* C7 as stated: after a successful send NotificationState.videoId is the id
\* of the item pushed.
C7_AsStated ==
  /\ C7_Selection
  /\ \A r \in Runs :
       (run[r].pc \in {"done", "failed"} /\ run[r].pushed # 0) =>
         last_notified.exists /\ last_notified.videoId = run[r].pushed

\* C8: NotificationState is written at most once per run and only after the
\* push of that run has succeeded; a run with no push or a failed push ends
\* with NotificationState as it started, and a failed push fails the run.
C8_WriteOnlyAfterSend ==
  \A r \in Runs :
    /\ run[r].wrote <= 1
    /\ run[r].wrote = 1 => run[r].pushed # 0
    /\ (run[r].pc # "idle" /\ run[r].pushed = 0) =>
         run[r].wrote = 0 /\ last_notified = run[r].startNotif
    /\ run[r].failedAt = "sending" => run[r].pc = "failed" /\ run[r].pushed = 0

\* a run whose push failed, started with a NotificationState naming a video
C8_Witness ==
  \E r \in Runs :
    /\ run[r].pc = "failed"
    /\ run[r].failedAt = "sending"
    /\ run[r].startNotif.exists

\* C9: two successive successful pushes never carry the same video id.
C9_NoRepeatedPush ==
  [][\A r \in Runs :
       (run[r].pc = "sending" /\ run'[r].pc = "recording")
          => run[r].top.videoId # lastPushed
  ]_vars

\* the documents of a collection that an item's discriminator designates
DocsFor(coll, item) ==
  {id \in DOMAIN coll : Discriminator(coll[id]) = Discriminator(item)}

\* C10: upserting the same item twice, in one batch or in two successive
\* batches, leaves exactly one document for it, and the collection after the
\* second upsert is the collection after the first.
C10_UpsertIdempotent ==
  \A r \in Runs :
    run[r].pc = "ordering" =>
      /\ Upsert(breaking_news, run[r].combined) = breaking_news
      /\ \A i \in 1..Len(run[r].combined) :
           Cardinality(DocsFor(breaking_news, run[r].combined[i])) = 1

\* an upsert has committed whose batch held the same item twice, and whose
\* items were in part stored before
C10_Witness ==
  \E r \in Runs :
    /\ run[r].pc = "ordering"
    /\ \E i, j \in 1..Len(run[r].combined) :
         i < j /\ run[r].combined[i] = run[r].combined[j]
    /\ \E i \in 1..Len(run[r].combined) :
         SafeId(run[r].combined[i]) \in DOMAIN run[r].existingSnap

\* the first non-empty value among videoId, url and title, in that order
FirstNonEmpty(item) ==
  IF "videoId" \in DOMAIN item /\ item.videoId # 0 THEN item.videoId
  ELSE IF "url" \in DOMAIN item /\ item.url # 0 THEN item.url
  ELSE item.title

\* C11: two fetched items have the same store key exactly if the first
\* non-empty value among videoId, url and title is the same for both, whatever
\* their other fields; and once the upsert has committed, the document under
\* the key of an item carries that item's discriminator, one document for
\* each discriminator of the batch.
C11_KeyByDiscriminator ==
  \A r \in Runs :
    /\ Live(r) =>
         \A a, b \in Range(run[r].articles) \cup Range(run[r].videos) :
           (FirstNonEmpty(a) = FirstNonEmpty(b)) <=> (SafeId(a) = SafeId(b))
    /\ run[r].pc = "ordering" =>
         /\ \A c \in Range(run[r].combined) :
              /\ SafeId(c) \in DOMAIN breaking_news
              /\ FirstNonEmpty(breaking_news[SafeId(c)]) = FirstNonEmpty(c)
         /\ Cardinality({SafeId(c) : c \in Range(run[r].combined)}) =
              Cardinality({FirstNonEmpty(c) : c \in Range(run[r].combined)})

\* an upsert has committed whose batch held two different items of one
\* discriminator, and two items of one url whose discriminators differ
C11_Witness ==
  \E r \in Runs :
    /\ run[r].pc = "ordering"
    /\ \E a, b \in Range(run[r].combined) :
         a # b /\ FirstNonEmpty(a) = FirstNonEmpty(b)
    /\ \E a, b \in Range(run[r].combined) :
         a.url = b.url /\ FirstNonEmpty(a) # FirstNonEmpty(b)

\* how often an item occurs in a list
Count(list, x) == Cardinality({i \in 1..Len(list) : list[i] = x})

\* C12: combined holds every fetched article and every item of newVideos, as
\* often as they were fetched, and nothing else; it is ordered by timestamp,
\* newest first; two items of equal timestamp stand in the order they have
\* in the list "articles, then newVideos".
C12_CombinedStableNewestFirst ==
  \A r \in Runs :
    Live(r) =>
      LET input == run[r].articles \o NewVideos(run[r].videos, run[r].existingSnap)
          combined == run[r].combined
      IN  /\ Len(combined) = Len(input)
          /\ \A x \in Range(input) \cup Range(combined) :
               Count(combined, x) = Count(input, x)
          /\ \A i, j \in 1..Len(combined) :
               i < j =>
                 /\ combined[i].timestamp >= combined[j].timestamp
                 /\ combined[i].timestamp = combined[j].timestamp =>
                      \E p, q \in 1..Len(input) :
                        p < q /\ input[p] = combined[i] /\ input[q] = combined[j]

\* a merge that had to reorder its input and that held an article and a new
\* video of one timestamp
C12_Witness ==
  \E r \in Runs :
    /\ Live(r)
    /\ run[r].combined # run[r].articles \o NewVideos(run[r].videos, run[r].existingSnap)
    /\ \E i, j \in 1..Len(run[r].combined) :
         /\ i < j
         /\ run[r].combined[i].type = "article"
         /\ run[r].combined[j].type = "video"
         /\ run[r].combined[i].timestamp = run[r].combined[j].timestamp

\* the store a run has built when it reaches the send: the snapshot it
\* started from, without its articles under the delete-articles-first policy,
\* with the items of combined upserted, cut by the retention step
StoreBuilt(l) ==
  LET base == IF policy = ReplaceArticles
              THEN DeleteDocs(l.existingSnap, OldArticleIds(l.existingSnap))
              ELSE l.existingSnap
      upserted == Upsert(base, l.combined)
  IN  IF Len(l.snap) > MaxDocs
      THEN DeleteDocs(upserted, Range(DocsToDelete(l.snap)))
      ELSE upserted

\* C13: when the push send of a run fails, the store keeps the upsert and the
\* retention deletes that the run has committed: the step of the failure
\* leaves breaking_news as it was when the send was attempted, which is the
\* store the run has built.
C13_StoreKeptOnSendFailure ==
  [][\A r \in Runs :
       (run[r].pc = "sending" /\ run'[r].pc = "failed")
          => /\ breaking_news' = breaking_news
             /\ breaking_news = StoreBuilt(run[r])
             /\ run'[r].failedAt = "sending"
  ]_vars

\* a run whose push failed after its retention step had deleted documents;
\* the store holds the 30 documents kept, other than at the start of the run
C13_Witness ==
  \E r \in Runs :
    /\ run[r].pc = "failed"
    /\ run[r].failedAt = "sending"
    /\ run[r].evicted > 0
    /\ Size(breaking_news) = MaxDocs
    /\ V3.videoId \in {breaking_news[id].videoId :
                         id \in {d \in DOMAIN breaking_news : breaking_news[d].type = "video"}}

\* the number of items that the answering sources of a run returned
OkCount(resps) ==
  Cardinality(UNION {{<<i, k>> : k \in 1..Len(resps[i].items)} :
                       i \in {j \in 1..Len(resps) : resps[j].ok}})

\* an item of a list that is x but for its image
InList(list, x) ==
  \E i \in 1..Len(list) : [list[i] EXCEPT !.image = x.image] = x

\* C14: a run goes on when a feed, a channel or an article page fails. As
\* long as the run has not written to the store: it is not aborted; articles
\* holds the items of the feeds that answered and nothing for a feed that
\* failed, videos the items of the channels that answered and nothing for a
\* channel that failed; an article whose page request failed has the empty
\* image; all articles and all unseen videos are in combined. When the upsert
\* has committed, every item of combined is in the store with its image, and
\* the push is for the most viewed unseen video of the channels that answered.
C14_FetchFailureIsolated ==
  \A r \in Runs :
    LET l == run[r]
    IN  /\ l.feeds # <<>> =>
             /\ Live(r)
             /\ Len(l.articles) = OkCount(l.feeds)
             /\ Len(l.videos) = OkCount(l.channels)
             /\ \A i \in 1..Len(l.feeds) :
                  l.feeds[i].ok =>
                    \A k \in 1..Len(l.feeds[i].items) :
                      InList(l.articles, l.feeds[i].items[k])
             /\ \A i \in 1..Len(l.channels) :
                  l.channels[i].ok =>
                    \A k \in 1..Len(l.channels[i].items) :
                      l.channels[i].items[k] \in Range(l.videos)
             /\ \A p \in 1..Len(l.pages) :
                  ~l.pages[p].ok =>
                    \E a \in Range(l.articles) :
                      a = [FeedItems(l.feeds)[p] EXCEPT !.image = 0]
             /\ \A a \in Range(l.articles) : a \in Range(l.combined)
             /\ \A v \in Range(l.videos) :
                  SafeId(v) \notin DOMAIN l.existingSnap => v \in Range(l.combined)
        /\ l.pc = "ordering" =>
             \A c \in Range(l.articles) \cup Range(NewVideos(l.videos, l.existingSnap)) :
               /\ SafeId(c) \in DOMAIN breaking_news
               /\ breaking_news[SafeId(c)].title = c.title
               /\ breaking_news[SafeId(c)].image = c.image
        /\ l.pc \in {"sending", "recording"} =>
             l.top = FirstMostViewed(NewVideos(l.videos, l.existingSnap))

\* the upsert of a run has committed in which the second feed, the first
\* channel and the page of the article A1 failed (the feeds, channels and
\* pages of SpecFetch have no other way to leave A2, V1 and the image out):
\* the store holds A1 with the empty image and the video V3
C14_Witness ==
  \E r \in Runs :
    /\ run[r].pc = "ordering"
    /\ run[r].existingSnap = <<>>
    /\ run[r].articles = <<A1>>
    /\ run[r].videos = <<V3>>
    /\ DOMAIN breaking_news = {SafeId(A1), SafeId(V3)}
    /\ breaking_news[SafeId(A1)].image = 0

C16_EndToEnd ==
  [][\A r \in Runs :
       LET l == run[r]
           items == l.articles \o l.videos
           keys == {SafeId(items[i]) : i \in 1..Len(items)}
       IN  ( /\ l.pc \notin {"idle", "done"}
             /\ run'[r].pc = "done"
             /\ l.existingSnap = <<>>
             /\ ~l.startNotif.exists
             /\ Len(items) <= MaxDocs
             /\ Cardinality(keys) = Len(items) )
           => /\ DOMAIN breaking_news' = keys
              /\ \A i \in 1..Len(items) :
                   breaking_news'[SafeId(items[i])] = Payload(items[i])
              /\ IF l.videos = <<>>
                 THEN run'[r].pushed = 0 /\ ~last_notified'.exists
                 ELSE /\ run'[r].pushed = FirstMostViewed(l.videos).videoId
                      /\ run'[r].wrote = 1
                      /\ last_notified'.exists
                      /\ last_notified'.videoId = FirstMostViewed(l.videos).videoId
  ]_vars

\* the first run has ended well from the empty store: the two articles and
\* the three videos each have their document, V3 was pushed and recorded
C16_Witness ==
  \E r \in Runs :
    /\ run[r].pc = "done"
    /\ started = 1
    /\ DOMAIN breaking_news = {SafeId(A1), SafeId(A2), SafeId(V1), SafeId(V2), SafeId(V3)}
    /\ run[r].pushed = V3.videoId
    /\ run[r].wrote = 1
    /\ last_notified.videoId = V3.videoId

\* C17: the steps of a run come in one order. When the ordered read is made
\* the upsert has committed, and the read returns every document the upsert
\* wrote; when the push is sent the retention delete has committed; and
\* NotificationState is written only after the send has succeeded.
C17_StepOrder ==
  \A r \in Runs :
    LET l == run[r]
    IN  /\ l.pc = "ordering" =>
             \A c \in Range(l.combined) : SafeId(c) \in DOMAIN breaking_news
        /\ l.pc \in {"evicting", "notify", "sending", "recording"} =>
             \A c \in Range(l.combined) : SafeId(c) \in Range(l.snap)
        /\ l.pc \in {"sending", "recording"} =>
             /\ DOMAIN breaking_news \subseteq Range(l.snap)
             /\ Size(breaking_news) <= MaxDocs
             /\ Len(l.snap) > MaxDocs =>
                  /\ l.evicted = Len(l.snap) - MaxDocs
                  /\ Range(DocsToDelete(l.snap)) \cap DOMAIN breaking_news = {}
        /\ l.pc = "sending" => l.pushed = 0 /\ l.wrote = 0
        /\ (l.pc # "idle" /\ last_notified # l.startNotif) =>
             l.pushed # 0 /\ l.wrote = 1 /\ l.pc \in {"done", "failed"}

\* a push has been sent in a run whose retention step deleted documents,
\* among them one that the upsert of this run had written
C17_Witness ==
  \E r \in Runs :
    /\ run[r].pc = "recording"
    /\ run[r].evicted > 0
    /\ \E c \in Range(run[r].combined) : SafeId(c) \in Range(DocsToDelete(run[r].snap))

\* C18: under the delete-articles-first policy, once the upsert of a run has
\* committed every document of type article in the store is the document of
\* an article fetched by this run, up to the end of the run; and right after
\* the article-delete batch every video document of the snapshot the run
\* started from is in the store as it was.
C18_ArticlesReplaced ==
  \A r \in Runs :
    LET l == run[r]
    IN  policy = ReplaceArticles =>
          /\ l.pc \in {"ordering", "evicting", "notify", "sending", "recording"} =>
               \A id \in DOMAIN breaking_news :
                 breaking_news[id].type = "article" =>
                   \E a \in Range(l.articles) :
                     SafeId(a) = id /\ breaking_news[id] = Payload(a)
          /\ l.pc = "upserting" =>
               \A id \in DOMAIN l.existingSnap :
                 l.existingSnap[id].type = "video" =>
                   id \in DOMAIN breaking_news /\ breaking_news[id] = l.existingSnap[id]

\* a run under the delete-articles-first policy is past its store updates;
\* the store it started from held a video and an article that the run did
\* not fetch again, and the run has fetched another article
C18_Witness ==
  \E r \in Runs :
    /\ policy = ReplaceArticles
    /\ run[r].pc = "notify"
    /\ run[r].articles # <<>>
    /\ \E id \in DOMAIN run[r].existingSnap :
         /\ run[r].existingSnap[id].type = "article"
         /\ \A a \in Range(run[r].articles) : SafeId(a) # id
         /\ id \notin DOMAIN breaking_news
    /\ \E id \in DOMAIN run[r].existingSnap :
         /\ run[r].existingSnap[id].type = "video"
         /\ id \in DOMAIN breaking_news

\* the store updates of one run that succeeds, from the store it reads at its
\* start and the items it fetched: the filter, the merge, the article delete
\* of src/index.js, the upsert and the retention step
StoreAfterCycle(store, articles, videos) ==
  LET combined == Combined(articles, NewVideos(videos, store))
      base == IF policy = ReplaceArticles
              THEN DeleteDocs(store, OldArticleIds(store))
              ELSE store
      upserted == Upsert(base, combined)
      snap == OrderByTimestampDesc(upserted)
  IN  IF Len(snap) > MaxDocs
      THEN DeleteDocs(upserted, Range(DocsToDelete(snap)))
      ELSE upserted

\* C19: the store updates of a run are idempotent under both policies. When
\* a run has made its retention step (the store stays as it is from there to
\* the end of the run) the store is what the updates make of the store the
\* run started from and of the items it fetched, and the same updates with
\* the same items, made by the next run on the store as it is now, give this
\* store again.
C19_CycleIdempotent ==
  \A r \in Runs :
    LET l == run[r]
    IN  l.pc = "notify" =>
          /\ breaking_news = StoreAfterCycle(l.existingSnap, l.articles, l.videos)
          /\ StoreAfterCycle(breaking_news, l.articles, l.videos) = breaking_news

\* a run is past a retention step that deleted the document of a video this
\* run had fetched and upserted: to the next run that video is unseen again
C19_Witness ==
  \E r \in Runs :
    /\ run[r].pc = "notify"
    /\ run[r].evicted > 0
    /\ \E i \in 1..Len(run[r].newVideos) :
         SafeId(run[r].newVideos[i]) \notin DOMAIN breaking_news
    /\ \E i \in 1..Len(run[r].articles) :
         SafeId(run[r].articles[i]) \in DOMAIN breaking_news

\* C20, the race: with no lock two overlapping runs both read the same
\* last-notified id before either writes it, both select the same video and
\* both send its push; here nothing was evicted, the document of the video
\* is in the store, and both runs are between their send and their write.
C20_OverlapDoubleSend ==
  \E r \in Runs : \E q \in Runs \ {r} :
    /\ run[r].pc = "recording" /\ run[q].pc = "recording"
    /\ run[r].pushed # 0
    /\ run[r].pushed = run[q].pushed
    /\ run[r].top = run[q].top
    /\ run[r].lastVideoId = run[q].lastVideoId
    /\ run[r].evicted = 0 /\ run[q].evicted = 0
    /\ SafeId(run[r].top) \in DOMAIN breaking_news

\* C20: with runs strictly one at a time, two successive runs never both
\* read the same last-notified id and both send the push of the same video
\* (one at a time nothing writes NotificationState between the start of a
\* run and its read, so startNotif is what the run read).
C20_NoDoubleSendOneAtATime ==
  \A r \in Runs : \A q \in Runs \ {r} :
    (run[r].pushed # 0 /\ run[r].pushed = run[q].pushed)
       => LastVideoId(run[r].startNotif) # LastVideoId(run[q].startNotif)

====
